---- MODULE Spec2Model ----
(***************************************************************************)
(* Ready-to-Reform scoring engine: src/src/config.py, src/src/features.py, *)
(* src/src/scoring.py, src/src/event_schema.py and the two callers         *)
(* src/src/run_daily_score.py and src/api/app.py.                          *)
(*                                                                         *)
(* Numbers.  The program computes in binary floating point; the model      *)
(* computes the same expressions in exact fixed-point arithmetic:          *)
(*   time            hours (integers); one day is HoursPerDay hours        *)
(*   weights         thousandths (WeightUnit = 1.0)                        *)
(*   thresholds,                                                           *)
(*   max_score,                                                            *)
(*   score values    thousandths of a point (MilliUnit = 1 point)          *)
(*   sub-scores      1/SubUnit of a point                                  *)
(*   components,                                                           *)
(*   totals          1/PointUnit of a point, PointUnit = SubUnit*WeightUnit*)
(* round(x, 2) is modelled as rounding to the nearest hundredth, ties to   *)
(* the even hundredth.                                                     *)
(***************************************************************************)
EXTENDS Integers, Sequences, FiniteSets, TLC

VARIABLES
  clock,      \* the wall clock, in hours (what datetime.now() returns)
  events,     \* the caller's event DataFrame: [columns, rows]
  source,     \* where the frame came from: "request", "csv", "warehouse"
  made,       \* <<the last attempt to construct an Event>>, or <<>>
  feature_config, \* the FeatureConfig held by the engineer (self.config)
  reference,  \* <<reference_date>> used by the last calculate_features, or <<>>
  features,   \* features_df: a sequence of feature rows
  config,     \* the ScoringConfig held by the scorer
  score_components, \* the components dict calculate_scores computed per row
  scores,     \* the list of Score objects returned by calculate_scores
  request,    \* <<arguments of the last ScoringConfig(...) call>>, or <<>>
  args,       \* the date arguments given in this run; <<>> is an omitted one
  prev,       \* <<the finished previous run of the engine>>, or <<>>
  pc          \* position of the caller in the pipeline

vars ==
  <<clock, events, source, made, feature_config, reference, features, config, score_components, scores,
    request, args, prev, pc>>

None == "None"

\* ------------------------------------------------------------------ bounds

\* rows of a features frame handed directly to the scorer
MaxRows == 2
\* events in the caller's frame
MaxEvents == 3
\* steps of the wall clock
MaxTicks == 1

\* ------------------------------------------------------------------ units

HoursPerDay == 24
WeightUnit == 10 * 100
MilliUnit == 10 * 100
SubUnit == 2 * 29 * HoursPerDay
PointUnit == SubUnit * WeightUnit

Abs(x) == IF x < 0 THEN -x ELSE x
Min(a, b) == IF b < a THEN b ELSE a
Max(a, b) == IF b > a THEN b ELSE a

\* n/d rounded to the nearest integer, ties to even (d > 0)
RoundHalfEven(n, d) ==
  LET q == n \div d
      r == n % d
  IN  IF 2 * r < d THEN q
      ELSE IF 2 * r > d THEN q + 1
      ELSE IF q % 2 = 0 THEN q ELSE q + 1

\* round(x, 2) of a value in 1/PointUnit points; the result in thousandths
Round2(x) == 10 * RoundHalfEven(x, PointUnit \div 100)

\* ------------------------------------------------------------ ScoringConfig

ScoringConfig(wr, wh, wf, wd, wb, ti, tn, ms) ==
  [weight_recency |-> wr, weight_high_intent |-> wh, weight_frequency |-> wf,
   weight_diversity |-> wd, weight_bundles |-> wb,
   threshold_ideal |-> ti, threshold_nurture |-> tn, max_score |-> ms]

\* SCORING_CONFIG = ScoringConfig()
SCORING_CONFIG == ScoringConfig(300, 250, 200, 150, 100, 70000, 40000, 100000)

WeightTotal(c) ==
  c.weight_recency + c.weight_high_intent + c.weight_frequency
    + c.weight_diversity + c.weight_bundles

PostInitRaisesNoTolerance(c) == WeightTotal(c) # WeightUnit

\* __post_init__: TRUE when it raises ValueError
PostInitRaises(c) == Abs(WeightTotal(c) - WeightUnit) > 1

\* ------------------------------------------------------------------ scorer

COMPONENT_ORDER ==
  <<"recency", "high_intent", "frequency", "diversity", "bundles_abandon">>

FeatureFields ==
  {"recency_days", "freq_7d", "freq_14d", "freq_30d", "high_intent_7d",
   "category_diversity_14d", "cart_abandon_7d", "reform_bundle_14d"}

\* features.get(field, default): `present` is the index of the row;
\* recency_days is held in hours
Get(row, field, default) ==
  IF field \in row.present THEN row[field] ELSE default

RecencyScoreStep(h) ==
  IF h >= 30 * HoursPerDay THEN 0 ELSE 100 * SubUnit

\* lines 79-86: the recency sub-score of recency_days = h / HoursPerDay
RecencyScore(h) ==
  IF h >= 30 * HoursPerDay THEN 0
  ELSE IF h <= HoursPerDay THEN 100 * SubUnit
  ELSE 100 * (SubUnit - 2 * (h - HoursPerDay))

HighIntentScoreTwenty(high_intent) == Min(100, high_intent * 20) * SubUnit

\* line 92: min(100, high_intent * 25)
HighIntentScore(high_intent) == Min(100, high_intent * 25) * SubUnit

FreqScoreSevenDayOnly(f7, f14, f30) ==
  Min(100 * SubUnit, 5 * f7 * (SubUnit \div 2))

\* weighted_freq * 5 = (5*f7 + 3*f14 + 2*f30) / 2
FreqScore(f7, f14, f30) ==
  Min(100 * SubUnit, (5 * f7 + 3 * f14 + 2 * f30) * (SubUnit \div 2))

DiversityScore(diversity) == Min(100, diversity * 20) * SubUnit

BundleScoreTenPerAbandon(reform_bundle, cart_abandon) ==
  LET b1 == IF reform_bundle > 0 THEN 70 ELSE 0
      b2 == IF cart_abandon > 0 THEN b1 + Min(30, cart_abandon * 10) ELSE b1
  IN  Min(100, b2) * SubUnit

\* lines 114-123: the bundle / abandonment sub-score
BundleScore(reform_bundle, cart_abandon) ==
  LET b1 == IF reform_bundle > 0 THEN 70 ELSE 0
      b2 == IF cart_abandon > 0 THEN b1 + Min(30, cart_abandon * 15) ELSE b1
  IN  Min(100, b2) * SubUnit

\* the components dict of _calculate_user_score, in insertion order
Components(row, cfg) ==
  [recency |->
     RecencyScore(Get(row, "recency_days", 999 * HoursPerDay)) * cfg.weight_recency,
   high_intent |->
     HighIntentScore(Get(row, "high_intent_7d", 0)) * cfg.weight_high_intent,
   frequency |->
     FreqScore(Get(row, "freq_7d", 0), Get(row, "freq_14d", 0),
               Get(row, "freq_30d", 0)) * cfg.weight_frequency,
   diversity |->
     DiversityScore(Get(row, "category_diversity_14d", 0)) * cfg.weight_diversity,
   bundles_abandon |->
     BundleScore(Get(row, "reform_bundle_14d", 0),
                 Get(row, "cart_abandon_7d", 0)) * cfg.weight_bundles]

SumComponents(c) ==
  c.recency + c.high_intent + c.frequency + c.diversity + c.bundles_abandon

\* lines 127-130: clamp to [0, max_score], then round to 2 decimals
FinalScore(total, cfg) ==
  Round2(Min(cfg.max_score * SubUnit, Max(0, total)))

calculate_user_score(row, cfg) ==
  LET components == Components(row, cfg)
  IN  [score |-> FinalScore(SumComponents(components), cfg),
       components |-> components]

classify_score_swapped(score, cfg) ==
  IF score >= cfg.threshold_nurture THEN "NUTRIR"
  ELSE IF score >= cfg.threshold_ideal THEN "MOMENTO IDEAL"
  ELSE "NÃO ABORDAR"

classify_score(score, cfg) ==
  IF score >= cfg.threshold_ideal THEN "MOMENTO IDEAL"
  ELSE IF score >= cfg.threshold_nurture THEN "NUTRIR"
  ELSE "NÃO ABORDAR"

SortedPositionTiesReversed(components, i) ==
  1 + Cardinality({j \in 1..5 :
        \/ components[COMPONENT_ORDER[j]] > components[COMPONENT_ORDER[i]]
        \/ /\ components[COMPONENT_ORDER[j]] = components[COMPONENT_ORDER[i]]
           /\ j > i})

\* position of component i after sorted(..., reverse=True): the sort is
\* stable, so equal values keep their insertion order
SortedPosition(components, i) ==
  1 + Cardinality({j \in 1..5 :
        \/ components[COMPONENT_ORDER[j]] > components[COMPONENT_ORDER[i]]
        \/ /\ components[COMPONENT_ORDER[j]] = components[COMPONENT_ORDER[i]]
           /\ j < i})

\* the top_n items as a sequence of <<name, rounded contribution>>
get_top_drivers(components, top_n) ==
  [p \in 1..Min(top_n, 5) |->
     LET i == CHOOSE k \in 1..5 : SortedPosition(components, k) = p
     IN  <<COMPONENT_ORDER[i], Round2(components[COMPONENT_ORDER[i]])>>]

Score(anon_id, score, class_label, score_date, top_drivers) ==
  [anon_id |-> anon_id, score |-> score, class_label |-> class_label,
   score_date |-> score_date, top_drivers |-> top_drivers]

\* the components dict computed for each row, in row order
ComponentRows(feats, cfg) ==
  [i \in 1..Len(feats) |-> calculate_user_score(feats[i], cfg).components]

ScoreRowsClassifyUnrounded(feats, cfg, score_date) ==
  [i \in 1..Len(feats) |->
     LET r == calculate_user_score(feats[i], cfg)
         raw == SumComponents(r.components)
         label == IF raw >= cfg.threshold_ideal * SubUnit THEN "MOMENTO IDEAL"
                  ELSE IF raw >= cfg.threshold_nurture * SubUnit THEN "NUTRIR"
                  ELSE "NÃO ABORDAR"
     IN  Score(feats[i].anon_id, r.score, label, score_date,
               get_top_drivers(r.components, 3))]

\* calculate_scores lines 46-58: one Score per row, in row order
ScoreRows(feats, cfg, score_date) ==
  [i \in 1..Len(feats) |->
     LET r == calculate_user_score(feats[i], cfg)
     IN  Score(feats[i].anon_id, r.score, classify_score(r.score, cfg),
               score_date, get_top_drivers(r.components, 3))]

\* Score.to_dict: score_date becomes its calendar date
ScoreToDict(s) == [s EXCEPT !.score_date = s.score_date \div HoursPerDay]

\* ----------------------------------------------------------- FeatureConfig

FEATURE_CONFIG ==
  [window_7d |-> 7, window_14d |-> 14, window_30d |-> 30,
   high_intent_events |->
     {"submit_quote", "whatsapp_quote_request", "scan_qr_service",
      "talk_to_consultant", "begin_checkout"},
   reform_bundles |->
     {{"piso", "rodape"}, {"tinta", "massa", "lixa"}, {"azulejo", "rejunte"},
      {"porta", "fechadura"}, {"janela", "persiana"}},
   cart_abandon_hours |-> 24]

\* ------------------------------------------------------------------ events

\* event_props as stored: a JSON text.  kind "object" is the text of a JSON
\* object whose "category" member is `category` (None: no such member);
\* kind "empty" is the empty string, "absent" a missing value, "malformed"
\* a text that is not JSON, "array" the text of a JSON array
Props(category) == [kind |-> "object", category |-> category]
EmptyProps == [kind |-> "empty", category |-> None]
AbsentProps == [kind |-> "absent", category |-> None]
MalformedProps == [kind |-> "malformed", category |-> None]
ArrayProps == [kind |-> "array", category |-> None]

\* category members that are JSON numbers, written as their JSON text
JsonNumbers == {"5"}

\* safe_parse_json: {} for a missing, empty or unparseable text, otherwise
\* whatever json.loads gives (a dict for an object, a list for an array)
safe_parse_json(json_str) ==
  CASE json_str.kind = "object" ->
         [kind |-> "dict", category |-> json_str.category]
    [] json_str.kind = "array" -> [kind |-> "list", category |-> None]
    [] OTHER -> [kind |-> "dict", category |-> None]

\* lambda x: x.get('category') if isinstance(x, dict) else None
CategoryOf(parsed) == IF parsed.kind = "dict" THEN parsed.category ELSE None

\* str.lower() on the category values that occur
Lower(s) ==
  CASE s = "Piso" -> "piso"
    [] s = "PISO" -> "piso"
    [] s = "Rodape" -> "rodape"
    [] OTHER -> s

\* the value shown for a column the frame does not have
NoColumn == [kind |-> "nocolumn", category |-> None]

Event(event_time, channel, anon_id, event_name, event_props) ==
  [event_time |-> event_time, channel |-> channel, anon_id |-> anon_id,
   event_name |-> event_name, event_props |-> event_props,
   event_props_parsed |-> NoColumn, category |-> None]

\* -------------------------------------------------------------- Event class

\* a dict given as event_props
DictProps(category) == [kind |-> "dict", category |-> category]

\* values given as event_time: a datetime, an ISO text without and with a
\* trailing Z, a text that is no ISO timestamp, an integer, None
EventTimeInputs ==
  {[type |-> "datetime", text |-> "1970-02-10T00:00:00"],
   [type |-> "str", text |-> "1970-02-10T00:00:00"],
   [type |-> "str", text |-> "1970-02-10T00:00:00Z"],
   [type |-> "str", text |-> "yesterday"],
   [type |-> "int", text |-> "960"],
   [type |-> "NoneType", text |-> "None"]}

\* datetime.fromisoformat(text.replace('Z', '+00:00')): the instant in hours
\* and its offset, or a ValueError
FromIsoFormat(text) ==
  CASE text = "1970-02-10T00:00:00" ->
         [raised |-> "", hours |-> 40 * HoursPerDay, tz |-> "naive"]
    [] text = "1970-02-10T00:00:00Z" ->
         [raised |-> "", hours |-> 40 * HoursPerDay, tz |-> "+00:00"]
    [] OTHER -> [raised |-> "ValueError", hours |-> 0, tz |-> "naive"]

NoEvent ==
  [event_time |-> [raised |-> "", hours |-> 0, tz |-> "naive"],
   channel |-> "", anon_id |-> "", event_name |-> "",
   event_props |-> DictProps(None)]

post_init_raises_channel_only(channel, anon_id, event_name) ==
  channel \notin {"web", "app", "store", "whatsapp"}

\* Event.__post_init__, lines 24-34
post_init_raises(channel, anon_id, event_name) ==
  \/ channel \notin {"web", "app", "store", "whatsapp"}
  \/ anon_id = ""
  \/ event_name = ""

\* Event(event_time, channel, anon_id, event_name, event_props): the
\* dataclass stores the fields and runs __post_init__
NewEvent(event_time, channel, anon_id, event_name, event_props) ==
  IF post_init_raises(channel, anon_id, event_name)
    THEN [raised |-> "ValueError", event |-> NoEvent]
    ELSE [raised |-> "",
          event |-> [event_time |-> event_time, channel |-> channel,
                     anon_id |-> anon_id, event_name |-> event_name,
                     event_props |-> event_props]]

\* lines 62-66 and 73: event_props of from_dict
from_dict_props(event_props) ==
  CASE event_props.kind = "dict" -> event_props
    [] event_props.kind = "object" -> DictProps(event_props.category)
    [] event_props.kind = "array" -> [kind |-> "list", category |-> None]
    [] OTHER -> DictProps(None)

\* Event.from_dict, lines 36-75
from_dict(data) ==
  LET parsed == IF data.event_time.type = "str"
                  THEN FromIsoFormat(data.event_time.text)
                  ELSE FromIsoFormat("1970-02-10T00:00:00")
  IN  IF data.event_time.type = "str" /\ parsed.raised # ""
        THEN [raised |-> "ValueError", event |-> NoEvent]
      ELSE IF data.event_time.type \notin {"str", "datetime"}
        THEN [raised |-> "ValueError", event |-> NoEvent]
      ELSE NewEvent(parsed, data.channel, data.anon_id, data.event_name,
                    from_dict_props(data.event_props))

InputColumns == {"event_time", "channel", "anon_id", "event_name", "event_props"}

EmptyFrame == [columns |-> InputColumns, rows |-> <<>>]

\* lines 50-56: the two columns calculate_features writes into the caller's frame
ParseRows(rows) ==
  [i \in 1..Len(rows) |->
     LET parsed == safe_parse_json(rows[i].event_props)
     IN  [rows[i] EXCEPT !.event_props_parsed = parsed,
                         !.category = CategoryOf(parsed)]]

\* events['anon_id'].unique(): distinct values in order of first appearance
RECURSIVE Unique(_)
Unique(ids) ==
  IF ids = <<>> THEN <<>>
  ELSE LET init == Unique(SubSeq(ids, 1, Len(ids) - 1))
           last == ids[Len(ids)]
       IN  IF \E k \in 1..Len(init) : init[k] = last THEN init
           ELSE Append(init, last)

\* sort_values('event_time'): rows in ascending time, equal times in frame order
SortByTime(rows) ==
  LET pos(i) == 1 + Cardinality({j \in 1..Len(rows) :
                      \/ rows[j].event_time < rows[i].event_time
                      \/ /\ rows[j].event_time = rows[i].event_time
                         /\ j < i})
  IN  [p \in 1..Len(rows) |-> rows[CHOOSE i \in 1..Len(rows) : pos(i) = p]]

UserEvents(rows, anon_id) ==
  SortByTime(SelectSeq(rows, LAMBDA e : e.anon_id = anon_id))

\* ------------------------------------------------------------ FeatureEngineer

\* user_events[user_events['event_time'] >= cutoff_date]
Recent(user_events, reference_date, window_days) ==
  SelectSeq(user_events,
            LAMBDA e : e.event_time >= reference_date - window_days * HoursPerDay)

SeqMax(times) ==
  CHOOSE t \in {times[i] : i \in 1..Len(times)} :
    \A i \in 1..Len(times) : times[i] <= t

calculate_recency_no_clamp(user_events, reference_date) ==
  IF Len(user_events) = 0 THEN 999 * HoursPerDay
  ELSE reference_date
         - SeqMax([i \in 1..Len(user_events) |-> user_events[i].event_time])

calculate_recency_no_sentinel(user_events, reference_date) ==
  IF Len(user_events) = 0 THEN 0
  ELSE Max(0, reference_date
                - SeqMax([i \in 1..Len(user_events) |-> user_events[i].event_time]))

\* days since the last event, in hours
calculate_recency(user_events, reference_date) ==
  IF Len(user_events) = 0 THEN 999 * HoursPerDay
  ELSE Max(0, reference_date
                - SeqMax([i \in 1..Len(user_events) |-> user_events[i].event_time]))

calculate_frequency(user_events, reference_date, window_days) ==
  Len(Recent(user_events, reference_date, window_days))

calculate_high_intent(user_events, reference_date, window_days, fc) ==
  Len(SelectSeq(Recent(user_events, reference_date, window_days),
                LAMBDA e : e.event_name \in fc.high_intent_events))

calculate_category_diversity_lower(user_events, reference_date, window_days) ==
  LET recent_events == Recent(user_events, reference_date, window_days)
  IN  Cardinality({Lower(recent_events[i].category) :
                     i \in 1..Len(recent_events)} \ {None})

\* recent_events['category'].dropna().unique()
calculate_category_diversity(user_events, reference_date, window_days) ==
  LET recent_events == Recent(user_events, reference_date, window_days)
  IN  Cardinality({recent_events[i].category : i \in 1..Len(recent_events)}
                    \ {None})

CheckoutsBeforeWindowEnd(recent_events, add_time, abandon_window_hours) ==
  SelectSeq(recent_events,
            LAMBDA e : /\ e.event_name = "begin_checkout"
                       /\ e.event_time >= add_time
                       /\ e.event_time < add_time + abandon_window_hours)

\* lines 252-256: the begin_checkout rows that cover a cart-add at add_time
Checkouts(recent_events, add_time, abandon_window_hours) ==
  SelectSeq(recent_events,
            LAMBDA e : /\ e.event_name = "begin_checkout"
                       /\ e.event_time >= add_time
                       /\ e.event_time <= add_time + abandon_window_hours)

calculate_cart_abandon_elapsed(user_events, reference_date, window_days, fc) ==
  LET recent_events == Recent(user_events, reference_date, window_days)
      cart_adds == SelectSeq(recent_events,
                     LAMBDA e : /\ e.event_name = "add_to_cart"
                                /\ e.event_time + fc.cart_abandon_hours
                                     <= reference_date)
  IN  Len(SelectSeq(cart_adds,
        LAMBDA a : Len(Checkouts(recent_events, a.event_time,
                                 fc.cart_abandon_hours)) = 0))

calculate_cart_abandon_all_time(user_events, reference_date, window_days, fc) ==
  LET cart_adds == SelectSeq(user_events,
                             LAMBDA e : e.event_name = "add_to_cart")
  IN  Len(SelectSeq(cart_adds,
        LAMBDA a : Len(Checkouts(user_events, a.event_time,
                                 fc.cart_abandon_hours)) = 0))

calculate_cart_abandon_consuming(user_events, reference_date, window_days, fc) ==
  LET recent_events == Recent(user_events, reference_date, window_days)
      cart_adds == SelectSeq(recent_events,
                             LAMBDA e : e.event_name = "add_to_cart")
      checkouts == SelectSeq(recent_events,
                             LAMBDA e : e.event_name = "begin_checkout")
      uncovered == Len(SelectSeq(cart_adds,
                     LAMBDA a : Len(Checkouts(recent_events, a.event_time,
                                              fc.cart_abandon_hours)) = 0))
  IN  Max(uncovered, Len(cart_adds) - Len(checkouts))

\* lines 244-261: each add_to_cart row is looked at on its own
calculate_cart_abandon(user_events, reference_date, window_days, fc) ==
  LET recent_events == Recent(user_events, reference_date, window_days)
      cart_adds == SelectSeq(recent_events,
                             LAMBDA e : e.event_name = "add_to_cart")
  IN  Len(SelectSeq(cart_adds,
        LAMBDA a : Len(Checkouts(recent_events, a.event_time,
                                 fc.cart_abandon_hours)) = 0))

calculate_reform_bundle_exact(user_events, reference_date, window_days, fc) ==
  LET recent_events == Recent(user_events, reference_date, window_days)
      categories == {Lower(recent_events[i].category) :
                       i \in {k \in 1..Len(recent_events) :
                                recent_events[k].category # None}}
  IN  IF \E bundle \in fc.reform_bundles : bundle = categories
        THEN 1 ELSE 0

calculate_reform_bundle_no_lower(user_events, reference_date, window_days, fc) ==
  LET recent_events == Recent(user_events, reference_date, window_days)
      categories == {recent_events[i].category :
                       i \in {k \in 1..Len(recent_events) :
                                recent_events[k].category # None}}
  IN  IF \E bundle \in fc.reform_bundles : bundle \subseteq categories
        THEN 1 ELSE 0

\* lines 280-292: a bundle is found when all its categories occur, lower-cased
calculate_reform_bundle(user_events, reference_date, window_days, fc) ==
  LET recent_events == Recent(user_events, reference_date, window_days)
      categories == {Lower(recent_events[i].category) :
                       i \in {k \in 1..Len(recent_events) :
                                /\ recent_events[k].category # None
                                /\ recent_events[k].category \notin JsonNumbers}}
  IN  IF \E bundle \in fc.reform_bundles : bundle \subseteq categories
        THEN 1 ELSE 0

\* dtype of the category column: apply() infers float64 when the values are
\* numbers and None only, object otherwise
CategoryDtype(rows) ==
  LET values == {rows[i].category : i \in 1..Len(rows)} \ {None}
  IN  IF values # {} /\ values \subseteq JsonNumbers
        THEN "float64" ELSE "object"

\* line 284: the .str accessor raises AttributeError unless the series is of
\* object dtype and is empty or holds at least one string
StrAccessorRaises(dtype, user_events, reference_date, window_days) ==
  LET recent_events == Recent(user_events, reference_date, window_days)
      values == {recent_events[i].category : i \in 1..Len(recent_events)}
                  \ {None}
  IN  \/ dtype # "object"
      \/ values # {} /\ values \subseteq JsonNumbers

calculate_user_features(user_events, reference_date, fc, anon_id) ==
  [anon_id |-> anon_id,
   present |-> FeatureFields,
   recency_days |-> calculate_recency(user_events, reference_date),
   freq_7d |-> calculate_frequency(user_events, reference_date, fc.window_7d),
   freq_14d |-> calculate_frequency(user_events, reference_date, fc.window_14d),
   freq_30d |-> calculate_frequency(user_events, reference_date, fc.window_30d),
   high_intent_7d |->
     calculate_high_intent(user_events, reference_date, fc.window_7d, fc),
   category_diversity_14d |->
     calculate_category_diversity(user_events, reference_date, fc.window_14d),
   cart_abandon_7d |->
     calculate_cart_abandon(user_events, reference_date, fc.window_7d, fc),
   reform_bundle_14d |->
     calculate_reform_bundle(user_events, reference_date, fc.window_14d, fc)]

calculate_features_per_event(rows, reference_date, fc) ==
  [k \in 1..Len(rows) |->
     calculate_user_features(UserEvents(rows, rows[k].anon_id), reference_date,
                             fc, rows[k].anon_id)]

\* lines 58-74: one feature row per distinct anon_id, in order of appearance
calculate_features(rows, reference_date, fc) ==
  LET ids == Unique([i \in 1..Len(rows) |-> rows[i].anon_id])
  IN  [k \in 1..Len(ids) |->
         calculate_user_features(UserEvents(rows, ids[k]), reference_date, fc,
                                 ids[k])]

\* calculate_features raises when _calculate_reform_bundle does for some user
calculate_features_raises(rows, reference_date, fc) ==
  \E i \in 1..Len(rows) :
    StrAccessorRaises(CategoryDtype(rows), UserEvents(rows, rows[i].anon_id),
                      reference_date, fc.window_14d)

\* ------------------------------------------------------------------ inputs

\* the reference instant a caller supplies, and the wall clock at the start
RefGiven == 40 * HoursPerDay
ClockStart == 41 * HoursPerDay + 16
TickHours == HoursPerDay \div 2

\* reference_date / score_date arguments: <<>> is the omitted argument
DateArgs == {<<>>, <<RefGiven>>}
NoArgs == [reference_date |-> <<>>, score_date |-> <<>>]

\* arguments given to ScoringConfig(...)
ConfigInputs ==
  {SCORING_CONFIG,
   ScoringConfig(250, 250, 250, 250, 1, 70000, 40000, 100000),
   ScoringConfig(250, 250, 250, 250, 2, 70000, 40000, 100000),
   ScoringConfig(250, 250, 250, 248, 0, 70000, 40000, 100000),
   ScoringConfig(1500, -500, 0, 0, 0, 70000, 40000, 100000),
   ScoringConfig(0, 0, 0, 0, 1000, 70000, 40000, 100000),
   ScoringConfig(300, 250, 200, 150, 100, 40000, 70000, 100000),
   ScoringConfig(300, 250, 200, 150, 100, 30000, 30000, 100000),
   ScoringConfig(300, 250, 200, 150, 100, 70000, 29570, 100000),
   ScoringConfig(300, 250, 200, 150, 100, 70000, 40000, 49996)}

\* feature values handed directly to the scorer:
\* <<recency hours, freq_7d, freq_14d, freq_30d, high_intent_7d,
\*   category_diversity_14d, cart_abandon_7d, reform_bundle_14d>>
FeatureValues ==
  {<<12, 1, 1, 1, 1, 1, 0, 0>>,
   <<0, 0, 0, 0, 0, 0, 0, 0>>,
   <<24, 0, 0, 0, 0, 0, 0, 0>>,
   <<25, 0, 0, 0, 0, 0, 0, 0>>,
   <<34, 0, 0, 0, 0, 0, 0, 0>>,
   <<372, 0, 0, 0, 0, 0, 0, 0>>,
   <<719, 0, 0, 0, 0, 0, 0, 0>>,
   <<720, 0, 0, 0, 0, 0, 0, 0>>,
   <<999 * HoursPerDay, 0, 0, 0, 0, 0, 0, 0>>,
   <<0, 40, 40, 40, 5, 6, 3, 1>>,
   <<0, 4, 6, 10, 4, 5, 2, 1>>,
   <<48, 2, 3, 3, 0, 2, 1, 0>>,
   <<12, 1, 1, 1, 1, 1, 0, 1>>,
   <<200, 0, 0, 5, 5, 0, 0, 0>>,
   <<48, 2, 3, 3, 0, 2, 2, 0>>}

FeatureRow(anon_id, v) ==
  [anon_id |-> anon_id, present |-> FeatureFields,
   recency_days |-> v[1], freq_7d |-> v[2], freq_14d |-> v[3],
   freq_30d |-> v[4], high_intent_7d |-> v[5],
   category_diversity_14d |-> v[6], cart_abandon_7d |-> v[7],
   reform_bundle_14d |-> v[8]]

\* events the ingest adapter may deliver
EventInputs ==
  {Event(RefGiven - 12, "web", "u1", "submit_quote", Props("piso")),
   Event(RefGiven - 12, "app", "u2", "submit_quote", Props("piso")),
   Event(RefGiven - 7 * HoursPerDay, "web", "u1", "view_item", Props("rodape")),
   Event(RefGiven - 7 * HoursPerDay - 1, "web", "u1", "view_item", EmptyProps),
   Event(RefGiven - 14 * HoursPerDay, "store", "u1", "view_item", Props("Piso")),
   Event(RefGiven - 30 * HoursPerDay, "web", "u1", "view_item", Props(None)),
   Event(RefGiven - 30 * HoursPerDay - 1, "web", "u2", "view_item", Props("piso")),
   Event(RefGiven + 1, "web", "u1", "view_item", Props("tinta")),
   Event(RefGiven - 2 * HoursPerDay, "whatsapp", "u1", "view_item",
         Props("Rodape"))}

\* cart events around CartTime, one and a half days before RefGiven
CartTime == RefGiven - 36

CartInputs ==
  {Event(CartTime, "web", "u1", "add_to_cart", Props("piso")),
   Event(CartTime + 2, "web", "u1", "add_to_cart", Props("rodape")),
   Event(CartTime - 1, "web", "u1", "begin_checkout", EmptyProps),
   Event(CartTime + 23, "web", "u1", "begin_checkout", EmptyProps),
   Event(CartTime + 24, "app", "u1", "begin_checkout", EmptyProps),
   Event(CartTime + 25, "web", "u1", "begin_checkout", EmptyProps),
   Event(CartTime + 1, "web", "u2", "begin_checkout", EmptyProps),
   Event(RefGiven - 7 * HoursPerDay - 1, "web", "u1", "add_to_cart", EmptyProps)}

\* events of valid shape whose properties are irregular
ShapeInputs ==
  {Event(RefGiven - 12, "web", "u1", "view_item", AbsentProps),
   Event(RefGiven - 13, "web", "u1", "view_item", EmptyProps),
   Event(RefGiven - 14, "app", "u1", "view_item", MalformedProps),
   Event(RefGiven - 15, "web", "u2", "view_item", ArrayProps),
   Event(RefGiven - 16, "web", "u1", "view_item", Props(None)),
   Event(RefGiven - 17, "store", "u1", "view_item", Props("5")),
   Event(RefGiven - 18, "web", "u2", "view_item", Props("piso")),
   Event(RefGiven - 20 * HoursPerDay, "web", "u2", "view_item", Props("5"))}

\* rows as each source can hand them over.  EventInput types channel,
\* anon_id and event_name as str and nothing more; read_csv gives NaN for an
\* empty cell; the warehouse query selects the columns as stored
NaN == "NaN"

RequestInputs ==
  {Event(RefGiven - 12, "web", "u1", "submit_quote", Props("piso")),
   Event(RefGiven - 13, "fax", "u1", "view_item", Props("piso")),
   Event(RefGiven - 14, "web", "", "view_item", Props("rodape")),
   Event(RefGiven - 15, "app", "u2", "", Props(None))}

CsvInputs ==
  {Event(RefGiven - 12, "web", "u1", "submit_quote", Props("piso")),
   Event(RefGiven - 13, "fax", "u1", "view_item", EmptyProps),
   Event(RefGiven - 14, "store", "u2", NaN, AbsentProps),
   Event(RefGiven - 15, "whatsapp", "u2", "view_item", Props("rodape"))}

WarehouseInputs ==
  {Event(RefGiven - 12, "web", "u1", "submit_quote", Props("piso")),
   Event(RefGiven - 13, "FAX", "u1", "view_item", Props("piso")),
   Event(RefGiven - 14, "web", "", "view_item", AbsentProps),
   Event(RefGiven - 15, "app", "u2", "", Props("rodape"))}

\* dicts handed to Event.from_dict and field values handed to Event(...)
EventDicts ==
  [event_time : EventTimeInputs,
   channel : {"web", "whatsapp", "fax", ""},
   anon_id : {"u1", ""},
   event_name : {"view_item", ""},
   event_props : {DictProps("piso"), Props("piso"), EmptyProps, AbsentProps,
                  MalformedProps, ArrayProps}]

\* FeatureConfig(window_7d, window_14d, window_30d), the other fields as
\* in the default
FeatureConfig(w7, w14, w30) ==
  [FEATURE_CONFIG EXCEPT !.window_7d = w7, !.window_14d = w14,
                         !.window_30d = w30]

\* configurations given to FeatureEngineer(...)
FeatureConfigInputs ==
  {FEATURE_CONFIG, FeatureConfig(14, 7, 30), FeatureConfig(7, 14, 10),
   FeatureConfig(1, 2, 3)}

\* events 12 hours, 10 days and 20 days before RefGiven
WindowInputs ==
  {Event(RefGiven - 12, "web", "u1", "view_item", Props("piso")),
   Event(RefGiven - 10 * HoursPerDay, "web", "u1", "view_item", Props("piso")),
   Event(RefGiven - 20 * HoursPerDay, "app", "u1", "view_item", EmptyProps),
   Event(RefGiven - 10 * HoursPerDay, "web", "u2", "submit_quote",
         Props("rodape"))}

\* cart events a few hours before and after RefGiven
LateCartInputs ==
  {Event(RefGiven - 5, "web", "u1", "add_to_cart", Props("piso")),
   Event(RefGiven + 2, "web", "u1", "add_to_cart", Props("rodape")),
   Event(RefGiven + 3, "app", "u1", "begin_checkout", EmptyProps),
   Event(RefGiven - 6, "web", "u1", "begin_checkout", EmptyProps),
   Event(RefGiven - 5, "web", "u2", "add_to_cart", Props("piso"))}

RerunInputs ==
  {Event(RefGiven - 12, "web", "u1", "submit_quote", Props("piso")),
   Event(RefGiven - 7 * HoursPerDay, "web", "u2", "view_item", Props("rodape")),
   Event(RefGiven - 2 * HoursPerDay, "web", "u1", "add_to_cart", Props("rodape"))}

\* ----------------------------------------------------------------- actions

\* the ingest adapter appends one event to the frame it will hand over
Ingest(pool) ==
  /\ pc = "ingest"
  /\ prev = <<>>
  /\ Len(events.rows) < MaxEvents
  /\ \E e \in pool : events' = [events EXCEPT !.rows = Append(@, e)]
  /\ UNCHANGED <<feature_config, made, clock, source, reference, features, config, score_components,
                 scores, request, args, prev, pc>>

\* one of the three sources of calculate_score / run_scoring_job hands over
\* one more row of the frame; the rows are taken as they come, no Event is
\* constructed from them
IngestFrom(path, pool) ==
  /\ pc = "ingest"
  /\ prev = <<>>
  /\ Len(events.rows) < MaxEvents
  /\ \E e \in pool : events' = [events EXCEPT !.rows = Append(@, e)]
  /\ source' = path
  /\ UNCHANGED <<feature_config, made, clock, reference, features, config, score_components, scores,
                 request, args, prev, pc>>

\* app.py lines 165-177: events in the body of POST /score
PostScoreEvents ==
  /\ source \in {"direct", "request"}
  /\ IngestFrom("request", RequestInputs)

\* load_events_from_csv: the sample or input CSV file
LoadEventsFromCsv ==
  /\ source \in {"direct", "csv"}
  /\ IngestFrom("csv", CsvInputs)

\* BigQueryIO.read_events: rows of the warehouse table
ReadEvents ==
  /\ source \in {"direct", "warehouse"}
  /\ IngestFrom("warehouse", WarehouseInputs)

\* Event(...) called with the fields of d, event_props being a dict
ConstructEvent ==
  /\ made = <<>>
  /\ \E d \in EventDicts :
       /\ d.event_time.type = "datetime"
       /\ d.event_props.kind = "dict"
       /\ made' = <<[via |-> "Event", data |-> d,
                     result |-> NewEvent(FromIsoFormat(d.event_time.text),
                                         d.channel, d.anon_id, d.event_name,
                                         d.event_props)]>>
  /\ UNCHANGED <<feature_config, clock, events, source, reference, features, config,
                 score_components, scores, request, args, prev, pc>>

\* Event.from_dict(d)
EventFromDict ==
  /\ made = <<>>
  /\ \E d \in EventDicts :
       made' = <<[via |-> "from_dict", data |-> d, result |-> from_dict(d)]>>
  /\ UNCHANGED <<feature_config, clock, events, source, reference, features, config,
                 score_components, scores, request, args, prev, pc>>

\* FeatureEngineer(config): the engineer keeps the config it is given;
\* FeatureConfig checks nothing
NewEngineer ==
  /\ pc = "ingest"
  /\ \E c \in FeatureConfigInputs : feature_config' = c
  /\ UNCHANGED <<clock, events, source, made, reference, features, config,
                 score_components, scores, request, args, prev, pc>>

\* time passes on the wall clock
Tick ==
  /\ clock < ClockStart + MaxTicks * TickHours
  /\ clock' = clock + TickHours
  /\ UNCHANGED <<feature_config, made, events, source, reference, features, config, score_components,
                 scores, request, args, prev, pc>>

\* FeatureEngineer.calculate_features(events, reference_date)
CalculateFeatures ==
  /\ pc = "ingest"
  /\ \E arg \in DateArgs :
       LET reference_date == IF arg = <<>> THEN clock ELSE arg[1]
           rows == ParseRows(events.rows)
       IN  /\ events' = [columns |-> events.columns
                                       \cup {"event_props_parsed", "category"},
                         rows |-> rows]
           /\ reference' = <<reference_date>>
           /\ args' = [args EXCEPT !.reference_date = arg]
           /\ IF calculate_features_raises(rows, reference_date, feature_config)
                THEN /\ pc' = "features_error"
                     /\ UNCHANGED features
                ELSE /\ pc' = "features"
                     /\ features'
                          = calculate_features(rows, reference_date,
                                               feature_config)
  /\ UNCHANGED <<feature_config, made, clock, source, config, score_components, scores, request,
                 prev>>

\* ScoringConfig(...) followed by ReadyToReformScorer(config)
NewScorer ==
  /\ pc = "features"
  /\ request = <<>>
  /\ \E c \in ConfigInputs :
       /\ request' = <<c>>
       /\ IF PostInitRaises(c)
            THEN /\ pc' = "config_error"
                 /\ UNCHANGED config
            ELSE /\ pc' = "features"
                 /\ config' = c
  /\ UNCHANGED <<feature_config, made, clock, events, source, reference, features, score_components,
                 scores, args, prev>>

\* ReadyToReformScorer.calculate_scores(features, score_date)
CalculateScores ==
  /\ pc = "features"
  /\ \E arg \in DateArgs :
       LET score_date == IF arg = <<>> THEN clock ELSE arg[1]
       IN  /\ scores' = ScoreRows(features, config, score_date)
           /\ args' = [args EXCEPT !.score_date = arg]
  /\ score_components' = ComponentRows(features, config)
  /\ pc' = "scored"
  /\ UNCHANGED <<feature_config, made, clock, events, source, reference, features, config, request,
                 prev>>

\* the caller runs the engine once more on the same frame
Rerun ==
  /\ pc = "scored"
  /\ prev = <<>>
  /\ prev' = <<[events |-> events, reference |-> reference, args |-> args,
                 scores |-> scores]>>
  /\ args' = NoArgs
  /\ reference' = <<>>
  /\ features' = <<>>
  /\ score_components' = <<>>
  /\ scores' = <<>>
  /\ pc' = "ingest"
  /\ UNCHANGED <<feature_config, made, clock, events, source, config, request>>

\* ---------------------------------------------------------- specifications

InitCommon ==
  /\ clock = ClockStart
  /\ source = "direct"
  /\ made = <<>>
  /\ feature_config = FEATURE_CONFIG
  /\ reference = <<>>
  /\ config = SCORING_CONFIG
  /\ score_components = <<>>
  /\ scores = <<>>
  /\ request = <<>>
  /\ args = NoArgs
  /\ prev = <<>>

\* the engine: ingest, calculate_features, calculate_scores
Init ==
  /\ InitCommon
  /\ events = EmptyFrame
  /\ features = <<>>
  /\ pc = "ingest"

Next ==
  \/ Ingest(EventInputs)
  \/ CalculateFeatures
  \/ CalculateScores

Spec == Init /\ [][Next]_vars

\* the engine on cart events
NextCart ==
  \/ Ingest(CartInputs)
  \/ CalculateFeatures
  \/ CalculateScores

SpecCart == Init /\ [][NextCart]_vars

\* the engine on events with irregular properties
NextShape ==
  \/ Ingest(ShapeInputs)
  \/ CalculateFeatures
  \/ CalculateScores

SpecShape == Init /\ [][NextShape]_vars

\* the engine behind its three sources of events
NextSources ==
  \/ PostScoreEvents
  \/ LoadEventsFromCsv
  \/ ReadEvents
  \/ CalculateFeatures
  \/ CalculateScores

SpecSources == Init /\ [][NextSources]_vars

\* construction of one Event
NextEvent ==
  \/ ConstructEvent
  \/ EventFromDict

SpecEvent == Init /\ [][NextEvent]_vars

\* the engine with an engineer built on a FeatureConfig of the caller
NextWindows ==
  \/ NewEngineer
  \/ Ingest(WindowInputs)
  \/ CalculateFeatures
  \/ CalculateScores

SpecWindows == Init /\ [][NextWindows]_vars

\* the engine on cart events around the reference instant
NextLateCart ==
  \/ Ingest(LateCartInputs)
  \/ CalculateFeatures
  \/ CalculateScores

SpecLateCart == Init /\ [][NextLateCart]_vars

\* the engine run twice on one frame while the wall clock advances
NextRerun ==
  \/ Ingest(RerunInputs)
  \/ Tick
  \/ CalculateFeatures
  \/ CalculateScores
  \/ Rerun

SpecRerun == Init /\ [][NextRerun]_vars

\* the scorer alone, on a features frame handed to it
InitScorer ==
  /\ InitCommon
  /\ events = EmptyFrame
  /\ \E n \in 0..MaxRows :
       \E f \in [1..n -> FeatureValues] :
         features = [i \in 1..n |-> FeatureRow(ToString(i), f[i])]
  /\ pc = "features"

NextScorer ==
  \/ NewScorer
  \/ CalculateScores

SpecScorer == InitScorer /\ [][NextScorer]_vars

\* columns a features frame handed to the scorer may lack: any one of the
\* eight, or all of them
DroppedColumns == {{f} : f \in FeatureFields} \cup {FeatureFields}

\* the scorer on a features frame that lacks some columns: the row that
\* calculate_scores hands to _calculate_user_score then has no such key
InitMissing ==
  /\ InitCommon
  /\ events = EmptyFrame
  /\ \E n \in 0..MaxRows :
       \E f \in [1..n -> FeatureValues] :
         \E dropped \in DroppedColumns :
           features = [i \in 1..n |->
                         [FeatureRow(ToString(i), f[i])
                            EXCEPT !.present = FeatureFields \ dropped]]
  /\ pc = "features"

NextMissing == CalculateScores

SpecMissing == InitMissing /\ [][NextMissing]_vars

\* ------------------------------------------------------------------ claims

Scored == pc = "scored"
Rows == 1..Len(scores)

\* C1: every score value returned by _calculate_user_score, after its
\* rounding to 2 decimals, lies in [0, max_score], for every configuration
\* that passes construction.
C1_ScoreWithinMax ==
  \A i \in Rows : 0 <= scores[i].score /\ scores[i].score <= config.max_score

\* C4: constructing a ScoringConfig fails exactly when the five weights sum
\* to something further than 0.001 from 1.0; the configuration a scorer holds
\* always has weights within 0.001 of 1.0, and after a failed construction no
\* scorer exists, so nothing is scored.
C4_ConfigValidation ==
  /\ pc = "config_error"
       <=> /\ request # <<>>
           /\ \/ WeightTotal(request[1]) > WeightUnit + 1
              \/ WeightTotal(request[1]) < WeightUnit - 1
  /\ WeightTotal(config) \in (WeightUnit - 1)..(WeightUnit + 1)
  /\ (request # <<>> /\ pc # "config_error") => config = request[1]
  /\ pc = "config_error" => scores = <<>>

C4_Witness ==
  /\ pc = "config_error"
  /\ WeightTotal(request[1]) = WeightUnit + 2

\* C5: the class label is the threshold function of the reported score value:
\* MOMENTO IDEAL when value >= threshold_ideal, otherwise NUTRIR when
\* value >= threshold_nurture, otherwise NÃO ABORDAR; the value tested is the
\* rounded, clamped value held in the Score.
C5_LabelFromReportedValue ==
  \A i \in Rows :
    LET v == scores[i].score
        label == scores[i].class_label
    IN  /\ label \in {"MOMENTO IDEAL", "NUTRIR", "NÃO ABORDAR"}
        /\ label = "MOMENTO IDEAL" <=> v >= config.threshold_ideal
        /\ label = "NUTRIR"
             <=> (v < config.threshold_ideal /\ v >= config.threshold_nurture)

\* a score that reaches threshold_nurture only through the rounding
C5_Witness ==
  /\ Scored
  /\ \E i \in Rows :
       /\ scores[i].class_label = "NUTRIR"
       /\ scores[i].score = config.threshold_nurture
       /\ SumComponents(score_components[i]) < config.threshold_nurture * SubUnit

Rank(label) ==
  CASE label = "NÃO ABORDAR" -> 0
    [] label = "NUTRIR" -> 1
    [] label = "MOMENTO IDEAL" -> 2

\* C6: for any fixed thresholds (threshold_nurture >= threshold_ideal
\* included), a score that is not lower never gets a lower tier, in the order
\* NÃO ABORDAR < NUTRIR < MOMENTO IDEAL.
C6_ClassificationMonotonic ==
  \A i, j \in Rows :
    scores[i].score <= scores[j].score
      => Rank(scores[i].class_label) <= Rank(scores[j].class_label)

C6_Witness ==
  /\ Scored
  /\ config.threshold_nurture >= config.threshold_ideal
  /\ \E i, j \in Rows :
       /\ scores[i].score < scores[j].score
       /\ Rank(scores[i].class_label) < Rank(scores[j].class_label)

\* the recency sub-score of row i: its component divided by the weight
RecencySub(i) == score_components[i].recency \div config.weight_recency

\* C7: the recency sub-score is 100 for recency_days <= 1, 0 for
\* recency_days >= 30 and 100 * (1 - (days - 1) / 29) strictly between; it is
\* non-increasing in recency_days and strictly decreasing on (1, 30).
C7_RecencySubScore ==
  (Scored /\ config.weight_recency # 0) =>
    /\ \A i \in Rows :
         LET h == features[i].recency_days
         IN  /\ score_components[i].recency
                  = RecencySub(i) * config.weight_recency
             /\ h <= HoursPerDay => RecencySub(i) = 100 * SubUnit
             /\ h >= 30 * HoursPerDay => RecencySub(i) = 0
             /\ (h > HoursPerDay /\ h < 30 * HoursPerDay)
                  => RecencySub(i) * 29 * HoursPerDay
                       = 100 * SubUnit * (29 * HoursPerDay - (h - HoursPerDay))
    /\ \A i, j \in Rows :
         LET hi == features[i].recency_days
             hj == features[j].recency_days
         IN  /\ hi <= hj => RecencySub(i) >= RecencySub(j)
             /\ (HoursPerDay < hi /\ hi < hj /\ hj < 30 * HoursPerDay)
                  => RecencySub(i) > RecencySub(j)

C7_Witness ==
  /\ Scored
  /\ config.weight_recency # 0
  /\ \E i, j \in Rows :
       /\ HoursPerDay < features[i].recency_days
       /\ features[i].recency_days < features[j].recency_days
       /\ features[j].recency_days < 30 * HoursPerDay
       /\ RecencySub(i) > RecencySub(j)

\* C8: the reported score value is the sum of the five weighted components
\* rounded to 2 decimals and then clamped to [0, max_score].
C8_RoundThenClamp ==
  \A i \in Rows :
    scores[i].score
      = Min(config.max_score,
            Max(0, Round2(SumComponents(score_components[i]))))

\* place of a component name in the order the components are computed
OrderOf(name) == CHOOSE j \in 1..5 : COMPONENT_ORDER[j] = name

\* C14: top_drivers holds the three components with the largest weighted
\* contribution, in descending order of contribution; components of equal
\* contribution keep the order recency, high_intent, frequency, diversity,
\* bundles_abandon; each value is the weighted contribution rounded to 2
\* decimals, not the 0-100 sub-score.
C14_TopDrivers ==
  \A i \in Rows :
    LET td == scores[i].top_drivers
        c == score_components[i]
        names == {td[p][1] : p \in 1..Len(td)}
    IN  /\ Len(td) = 3
        /\ Cardinality(names) = 3
        /\ names \subseteq {COMPONENT_ORDER[j] : j \in 1..5}
        /\ \A p \in 1..3 : td[p][2] = Round2(c[td[p][1]])
        /\ \A p, q \in 1..3 :
             p < q =>
               \/ c[td[p][1]] > c[td[q][1]]
               \/ /\ c[td[p][1]] = c[td[q][1]]
                  /\ OrderOf(td[p][1]) < OrderOf(td[q][1])
        /\ \A j \in 1..5 :
             COMPONENT_ORDER[j] \notin names =>
               \/ c[COMPONENT_ORDER[j]] < c[td[3][1]]
               \/ /\ c[COMPONENT_ORDER[j]] = c[td[3][1]]
                  /\ OrderOf(td[3][1]) < j

\* recency alone contributes (sub-score 100, contribution 30.0) and the four
\* others tie at 0: high_intent and frequency follow in component order
C14_Witness ==
  /\ Scored
  /\ config = SCORING_CONFIG
  /\ \E i \in Rows :
       scores[i].top_drivers
         = <<(<<"recency", 30000>>), (<<"high_intent", 0>>),
             (<<"frequency", 0>>)>>

\* the five sub-scores of a feature row, in 1/SubUnit of a point
SubScores(row) ==
  <<RecencyScore(Get(row, "recency_days", 999 * HoursPerDay)),
    HighIntentScore(Get(row, "high_intent_7d", 0)),
    FreqScore(Get(row, "freq_7d", 0), Get(row, "freq_14d", 0),
              Get(row, "freq_30d", 0)),
    DiversityScore(Get(row, "category_diversity_14d", 0)),
    BundleScore(Get(row, "reform_bundle_14d", 0),
                Get(row, "cart_abandon_7d", 0))>>

\* C23: for every configuration that passes the weight validation and every
\* feature vector with non-negative fields, each of the five sub-scores lies
\* in [0, 100] and the sum of the five weighted components lies in [0, 100]
\* before any clamping.
C23_BoundedBeforeClamp ==
  Scored =>
    \A i \in Rows :
      /\ \A j \in 1..5 :
           /\ 0 <= SubScores(features[i])[j]
           /\ SubScores(features[i])[j] <= 100 * SubUnit
      /\ 0 <= SumComponents(score_components[i])
      /\ SumComponents(score_components[i]) <= 100 * PointUnit

\* the bundle / abandonment sub-score of row i: its component divided by
\* the weight
BundleSub(i) == score_components[i].bundles_abandon \div config.weight_bundles

\* C24: the bundle/abandonment sub-score is 70 when a bundle was detected
\* and 0 otherwise, plus min(30, 15 * cart_abandon_7d), capped at 100:
\* bundle alone 70, one abandonment alone 15, two or more alone 30, bundle
\* and two or more abandonments 100.
C24_BundleAbandonSubScore ==
  (Scored /\ config.weight_bundles # 0) =>
    \A i \in Rows :
      LET b == features[i].reform_bundle_14d
          a == features[i].cart_abandon_7d
      IN  /\ score_components[i].bundles_abandon
               = BundleSub(i) * config.weight_bundles
          /\ BundleSub(i)
               = Min(100, (IF b > 0 THEN 70 ELSE 0) + Min(30, 15 * a)) * SubUnit
          /\ (b = 1 /\ a = 0) => BundleSub(i) = 70 * SubUnit
          /\ (b = 0 /\ a = 1) => BundleSub(i) = 15 * SubUnit
          /\ (b = 0 /\ a >= 2) => BundleSub(i) = 30 * SubUnit
          /\ (b = 1 /\ a >= 2) => BundleSub(i) = 100 * SubUnit

\* one row with two abandonments and no bundle, one with a bundle and two
C24_Witness ==
  /\ Scored
  /\ config.weight_bundles # 0
  /\ \E i, j \in Rows :
       /\ features[i].reform_bundle_14d = 0
       /\ features[i].cart_abandon_7d = 2
       /\ BundleSub(i) = 30 * SubUnit
       /\ features[j].reform_bundle_14d = 1
       /\ features[j].cart_abandon_7d = 2
       /\ BundleSub(j) = 100 * SubUnit

\* C28: the frequency sub-score is
\* min(100, 5 * (0.5*freq_7d + 0.3*freq_14d + 0.2*freq_30d)), from all three
\* window counts; the high-intent and diversity sub-scores are
\* min(100, 25 * high_intent_7d) and min(100, 20 * category_diversity_14d),
\* reaching 100 at 4 events and at 5 categories; each component is its
\* sub-score times its configured weight.
C28_SubScoreFormulas ==
  Scored =>
    \A i \in Rows :
      LET blend10 == 5 * features[i].freq_7d + 3 * features[i].freq_14d
                       + 2 * features[i].freq_30d
          freq == Min(100 * SubUnit, (5 * blend10 * SubUnit) \div 10)
          h == features[i].high_intent_7d
          d == features[i].category_diversity_14d
          high == Min(100, 25 * h) * SubUnit
          div == Min(100, 20 * d) * SubUnit
      IN  /\ score_components[i].frequency = freq * config.weight_frequency
          /\ score_components[i].high_intent = high * config.weight_high_intent
          /\ score_components[i].diversity = div * config.weight_diversity
          /\ high = 100 * SubUnit <=> h >= 4
          /\ div = 100 * SubUnit <=> d >= 5

\* counts 4, 6, 10 blend to 5.8 and give 29; 4 high-intent events and 5
\* categories give 100 each
C28_Witness ==
  /\ Scored
  /\ config = SCORING_CONFIG
  /\ \E i \in Rows :
       /\ features[i].freq_7d = 4
       /\ features[i].freq_14d = 6
       /\ features[i].freq_30d = 10
       /\ features[i].high_intent_7d = 4
       /\ features[i].category_diversity_14d = 5
       /\ score_components[i].frequency = 29 * SubUnit * 200
       /\ score_components[i].high_intent = 25 * PointUnit
       /\ score_components[i].diversity = 15 * PointUnit

\* ------------------------------------------------- claims about the engine

HasFeatures == pc \in {"features", "scored"}
Users == 1..Len(features)
EventRows == 1..Len(events.rows)

\* the rows of the caller's frame that belong to the user of feature row k
RowsOf(k) == {i \in EventRows : events.rows[i].anon_id = features[k].anon_id}

\* feature rows of users whose whole history is one submit_quote event with
\* category piso, 12 hours before the reference
SingleQuoteUsers ==
  {k \in Users :
     /\ Cardinality(RowsOf(k)) = 1
     /\ \A i \in RowsOf(k) :
          /\ events.rows[i].event_name = "submit_quote"
          /\ events.rows[i].event_props = Props("piso")
          /\ events.rows[i].event_time = reference[1] - 12}

SingleQuoteFeatures(k) ==
  /\ features[k].recency_days = HoursPerDay \div 2
  /\ features[k].high_intent_7d = 1
  /\ features[k].freq_7d = 1
  /\ features[k].freq_14d = 1
  /\ features[k].freq_30d = 1
  /\ features[k].category_diversity_14d = 1
  /\ features[k].reform_bundle_14d = 0
  /\ features[k].cart_abandon_7d = 0

\* C2 as stated: with the default configuration such a user gets recency 0.5
\* days, one high-intent event, frequency 1 in every window, diversity 1, no
\* bundle, no abandonment, a total of 39.75 and the tier NÃO ABORDAR.
C2_Original ==
  Scored =>
    \A k \in SingleQuoteUsers :
      /\ SingleQuoteFeatures(k)
      /\ scores[k].score = 39750
      /\ scores[k].class_label = "NÃO ABORDAR"

\* C2 as amended: the same features, a total of 40.25 (the frequency
\* component is 0.20 * 5 * (0.5 + 0.3 + 0.2) = 1.0) and the tier NUTRIR.
C2_SingleQuoteScenario ==
  Scored =>
    \A k \in SingleQuoteUsers :
      /\ SingleQuoteFeatures(k)
      /\ scores[k].score = 40250
      /\ scores[k].class_label = "NUTRIR"

C2_Witness ==
  /\ Scored
  /\ config = SCORING_CONFIG
  /\ SingleQuoteUsers # {}

ToDicts(list) == [i \in 1..Len(list) |-> ScoreToDict(list[i])]

\* C3: two runs of the engine on the identical event collection with the
\* identical supplied reference time (and the same arguments otherwise) give
\* identical Score output in every field, scoreDate included.
C3_Deterministic ==
  (/\ Scored
   /\ prev # <<>>
   /\ args.reference_date # <<>>
   /\ prev[1].events = events
   /\ prev[1].reference = reference
   /\ prev[1].args = args)
    => ToDicts(prev[1].scores) = ToDicts(scores)

\* events of the user of feature row k with reference - window <= t <= reference
InClosedWindow(k, window_days) ==
  {i \in RowsOf(k) :
     /\ reference[1] - window_days * HoursPerDay <= events.rows[i].event_time
     /\ events.rows[i].event_time <= reference[1]}

\* C9: each frequency feature is the number of the user's events with
\* reference - window <= t <= reference; an event later than the reference
\* is counted in no window.
C9_FrequencyClosedWindow ==
  HasFeatures =>
    \A k \in Users :
      /\ features[k].freq_7d = Cardinality(InClosedWindow(k, 7))
      /\ features[k].freq_14d = Cardinality(InClosedWindow(k, 14))
      /\ features[k].freq_30d = Cardinality(InClosedWindow(k, 30))

\* events of the user of feature row k the 7-day features look at: those at
\* or after reference - 7 days
InWindow7(k) ==
  {i \in RowsOf(k) :
     events.rows[i].event_time >= reference[1] - 7 * HoursPerDay}

\* the add_to_cart rows no begin_checkout covers
Abandoned(k) ==
  {i \in InWindow7(k) :
     /\ events.rows[i].event_name = "add_to_cart"
     /\ ~ \E j \in InWindow7(k) :
            /\ events.rows[j].event_name = "begin_checkout"
            /\ events.rows[i].event_time <= events.rows[j].event_time
            /\ events.rows[j].event_time <= events.rows[i].event_time + 24}

CoversAll(k) ==
  {j \in InWindow7(k) :
     /\ events.rows[j].event_name = "begin_checkout"
     /\ \A i \in InWindow7(k) :
          events.rows[i].event_name = "add_to_cart" =>
            /\ events.rows[i].event_time <= events.rows[j].event_time
            /\ events.rows[j].event_time
                 <= events.rows[i].event_time + FEATURE_CONFIG.cart_abandon_hours}

\* C11: each add_to_cart is evaluated on its own and a begin_checkout is
\* never used up: a cart-add with a checkout in its own forward window
\* [add_time, add_time + cart_abandon_hours] is not counted whatever other
\* cart-adds the same checkout covers, so when one checkout lies inside the
\* window of every cart-add of the user, cart_abandon_7d is 0.
C11_CheckoutNotConsumed ==
  HasFeatures =>
    \A k \in Users :
      /\ CoversAll(k) # {} => features[k].cart_abandon_7d = 0
      /\ \A j \in InWindow7(k) :
           events.rows[j].event_name = "begin_checkout" =>
             features[k].cart_abandon_7d
               <= Cardinality({i \in InWindow7(k) :
                    /\ events.rows[i].event_name = "add_to_cart"
                    /\ ~ (/\ events.rows[i].event_time
                               <= events.rows[j].event_time
                          /\ events.rows[j].event_time
                               <= events.rows[i].event_time
                                    + FEATURE_CONFIG.cart_abandon_hours)})

\* two cart-adds two hours apart and a single checkout inside both windows
C11_Witness ==
  /\ HasFeatures
  /\ \E k \in Users :
       /\ features[k].cart_abandon_7d = 0
       /\ Cardinality({j \in InWindow7(k) :
                         events.rows[j].event_name = "begin_checkout"}) = 1
       /\ CoversAll(k) # {}
       /\ \E i1, i2 \in InWindow7(k) :
            /\ events.rows[i1].event_name = "add_to_cart"
            /\ events.rows[i2].event_name = "add_to_cart"
            /\ events.rows[i1].event_time < events.rows[i2].event_time

\* events of the user of feature row k the 14-day features look at
InWindow14(k) ==
  {i \in RowsOf(k) :
     events.rows[i].event_time >= reference[1] - 14 * HoursPerDay}

\* the category values written in the properties of those events
WindowCategories(k) ==
  {events.rows[i].event_props.category :
     i \in {j \in InWindow14(k) :
              /\ events.rows[j].event_props.kind = "object"
              /\ events.rows[j].event_props.category # None}}

Without(rows, i) ==
  [j \in 1..(Len(rows) - 1) |-> IF j < i THEN rows[j] ELSE rows[j + 1]]

\* reform_bundle_14d of the user of feature row k had the frame been rows
BundleOn(rows, k) ==
  calculate_reform_bundle(UserEvents(rows, features[k].anon_id), reference[1],
                          FEATURE_CONFIG.window_14d, FEATURE_CONFIG)

\* C13: bundle detection is monotonic: when reform_bundle_14d is 1 on a
\* user's events, it is still 1 once further events, with any categories,
\* are added; so the flag of the whole frame is 1 whenever it is 1 on the
\* frame less one row or on a prefix of the frame.
C13_BundleMonotonic ==
  HasFeatures =>
    \A k \in Users :
      /\ features[k].reform_bundle_14d = BundleOn(events.rows, k)
      /\ \A i \in EventRows :
           BundleOn(Without(events.rows, i), k) = 1
             => features[k].reform_bundle_14d = 1
      /\ \A n \in 0..Len(events.rows) :
           BundleOn(SubSeq(events.rows, 1, n), k) = 1
             => features[k].reform_bundle_14d = 1

\* a bundle already found, and one more row of the user, with a category of
\* no bundle found, inside the window
C13_Witness ==
  /\ HasFeatures
  /\ \E k \in Users :
       \E i \in InWindow14(k) :
         /\ BundleOn(Without(events.rows, i), k) = 1
         /\ events.rows[i].category = "tinta"
         /\ features[k].reform_bundle_14d = 1

\* rows whose properties carry no usable category: absent, empty, not JSON,
\* not a JSON object, no category member, or a category that is a number
Irregular(i) ==
  \/ events.rows[i].event_props.kind # "object"
  \/ events.rows[i].event_props.category = None
  \/ events.rows[i].event_props.category \in JsonNumbers

\* C15: on a pre-validated event collection calculate_features never raises
\* for a data-shape anomaly: a row whose properties are absent, empty,
\* unparseable, not a JSON object, or whose category is missing or not a
\* string, is processed; and a batch of zero events gives zero feature
\* vectors and zero scores.
C15_TotalOnShapeAnomalies ==
  /\ pc # "features_error"
  /\ (HasFeatures /\ events.rows = <<>>) => features = <<>>
  /\ (Scored /\ events.rows = <<>>) => scores = <<>>
  /\ HasFeatures =>
       \A k \in Users :
         (\A i \in RowsOf(k) : Irregular(i))
           => features[k].reform_bundle_14d = 0

AllFieldsNumeric(row) ==
  /\ row.present = FeatureFields
  /\ \A f \in FeatureFields : row[f] \in Nat

\* the count fields are 0 and recency_days is the sentinel 999
DefaultValues(row) ==
  /\ row.recency_days = 999 * HoursPerDay
  /\ \A f \in FeatureFields \ {"recency_days"} : row[f] = 0

\* C17: every feature vector calculate_features produces has all eight
\* scalar fields set to a number; a user with no events in a window has 0
\* for the counts of that window, and for a user with no events at all the
\* counts are 0 and recency_days is the sentinel 999.
C17_AllFieldsDefined ==
  HasFeatures =>
    /\ \A k \in Users :
         /\ AllFieldsNumeric(features[k])
         /\ (\A i \in RowsOf(k) :
               events.rows[i].event_time
                 < reference[1] - 30 * HoursPerDay)
              => /\ features[k].recency_days > 30 * HoursPerDay
                 /\ \A f \in FeatureFields \ {"recency_days"} :
                      features[k][f] = 0
    /\ LET none == calculate_user_features(<<>>, reference[1], FEATURE_CONFIG,
                                           "u0")
       IN  AllFieldsNumeric(none) /\ DefaultValues(none)

\* a user whose only event is older than every window: all counts are 0
C17_Witness ==
  /\ HasFeatures
  /\ \E k \in Users :
       /\ features[k].freq_30d = 0
       /\ features[k].category_diversity_14d = 0
       /\ features[k].recency_days = 30 * HoursPerDay + 1
  /\ DefaultValues(calculate_user_features(<<>>, reference[1], FEATURE_CONFIG,
                                           "u0"))

\* C18: calculate_features reads the caller's event collection and leaves
\* it as it was: the same rows with the same fields and values, and the
\* same set of columns, after the call as before it.
C18_EventsReadOnly ==
  [][(pc = "ingest" /\ pc' # "ingest") => events' = events]_vars

\* Event.__post_init__ would accept the row
ValidRow(e) ==
  /\ e.channel \in {"web", "app", "store", "whatsapp"}
  /\ e.anon_id \notin {"", NaN}
  /\ e.event_name \notin {"", NaN}

\* C19: an event with an invalid channel tag, an empty identifier or an
\* empty event name is refused at ingestion on every path that feeds
\* calculate_features (events in the POST /score body, the CSV file, the
\* warehouse): no such event is in the frame calculate_features works on.
C19_InvalidEventsRejected ==
  (pc # "ingest" /\ source \in {"request", "csv", "warehouse"}) =>
    \A i \in EventRows : ValidRow(events.rows[i])

\* C20: constructing an Event, directly or through from_dict, fails when the
\* channel is not one of web, app, store, whatsapp, when the identifier is
\* empty or when the event name is empty; from_dict also fails when
\* event_time is neither a datetime nor a string; an event_props text that
\* is not JSON does not fail, it becomes the empty property map; and a
\* construction with none of these faults and a readable time succeeds.
C20_EventValidation ==
  made # <<>> =>
    LET d == made[1].data
        r == made[1].result
        invalid == \/ d.channel \notin {"web", "app", "store", "whatsapp"}
                   \/ d.anon_id = ""
                   \/ d.event_name = ""
        bad_time == /\ made[1].via = "from_dict"
                    /\ \/ d.event_time.type \notin {"datetime", "str"}
                       \/ d.event_time.text = "yesterday"
    IN  /\ invalid => r.raised = "ValueError"
        /\ (made[1].via = "from_dict"
              /\ d.event_time.type \notin {"datetime", "str"})
             => r.raised = "ValueError"
        /\ (~ invalid /\ ~ bad_time)
             => /\ r.raised = ""
                /\ r.event.channel = d.channel
                /\ r.event.anon_id = d.anon_id
                /\ r.event.event_name = d.event_name
                /\ d.event_props = MalformedProps
                     => r.event.event_props = DictProps(None)
        /\ r.raised # "" => r.event = NoEvent

\* from_dict on a valid dict whose event_props text is not JSON
C20_Witness ==
  /\ made # <<>>
  /\ made[1].via = "from_dict"
  /\ made[1].data.event_props = MalformedProps
  /\ made[1].data.event_time.type = "str"
  /\ made[1].result.raised = ""
  /\ made[1].result.event.event_props = DictProps(None)

\* the rows of the frame that belong to user u, as a frame of their own
Alone(u) == SelectSeq(events.rows, LAMBDA e : e.anon_id = u)

\* C21: for a fixed reference and configuration a user's feature vector and
\* Score depend on that user's own events only: whenever calculate_features
\* returns a vector for the user on the user's rows alone, the batch, which
\* has those rows and rows of other users in any order, gives the user the
\* same vector and the same Score.
C21_PerUserIndependent ==
  (pc # "ingest") =>
    \A u \in {events.rows[i].anon_id : i \in EventRows} :
      ~ calculate_features_raises(Alone(u), reference[1], FEATURE_CONFIG)
        => /\ pc # "features_error"
           /\ \E k \in Users :
                /\ features[k]
                     = calculate_features(Alone(u), reference[1],
                                          FEATURE_CONFIG)[1]
                /\ Scored =>
                     scores[k]
                       = ScoreRows(calculate_features(Alone(u), reference[1],
                                                      FEATURE_CONFIG),
                                   config, scores[k].score_date)[1]

\* the feature row with 0 put in every field it lacks
ZeroFilled(row) ==
  [f \in DOMAIN row |->
     IF f = "present" THEN FeatureFields
     ELSE IF f \in FeatureFields \ row.present THEN 0 ELSE row[f]]

\* C22: a feature vector that lacks an expected field is scored, without
\* raising, as if the field were 0; this holds for each of the eight
\* fields, recency_days included.
C22_MissingFieldIsZero ==
  Scored =>
    /\ Len(scores) = Len(features)
    /\ \A i \in Rows :
         /\ score_components[i] = Components(ZeroFilled(features[i]), config)
         /\ scores[i].score
              = calculate_user_score(ZeroFilled(features[i]), config).score

LastEventTime(k) ==
  CHOOSE t \in {events.rows[i].event_time : i \in RowsOf(k)} :
    \A i \in RowsOf(k) : events.rows[i].event_time <= t

\* C26: for a user with at least one event recency_days is
\* max(0, reference - time of the latest event), in days: never negative,
\* 0 when the latest event is after the reference, and the true gap when
\* every event is older than 30 days, the window counts then being 0 and
\* recency_days not the sentinel 999.
C26_Recency ==
  HasFeatures =>
    \A k \in Users :
      /\ RowsOf(k) # {}
      /\ features[k].recency_days = Max(0, reference[1] - LastEventTime(k))
      /\ features[k].recency_days >= 0
      /\ LastEventTime(k) > reference[1] => features[k].recency_days = 0
      /\ LastEventTime(k) < reference[1] - 30 * HoursPerDay
           => /\ features[k].recency_days = reference[1] - LastEventTime(k)
              /\ features[k].recency_days # 999 * HoursPerDay
              /\ features[k].freq_7d = 0
              /\ features[k].freq_14d = 0
              /\ features[k].freq_30d = 0

\* one user whose latest event is after the reference, another whose only
\* event is 30 days and one hour old
C26_Witness ==
  /\ HasFeatures
  /\ \E k, m \in Users :
       /\ LastEventTime(k) > reference[1]
       /\ features[k].recency_days = 0
       /\ features[m].recency_days = 30 * HoursPerDay + 1
       /\ features[m].freq_30d = 0

\* C27: in every feature vector the window counts are nested,
\* freq_7d <= freq_14d <= freq_30d, for every FeatureConfig the engineer
\* accepts and not only for the default windows 7, 14 and 30.
C27_NestedWindowCounts ==
  HasFeatures =>
    \A k \in Users :
      /\ features[k].freq_7d <= features[k].freq_14d
      /\ features[k].freq_14d <= features[k].freq_30d

\* C29: the counts of a feature vector are consistent with one another:
\* high_intent_7d <= freq_7d; cart_abandon_7d is at most the number of
\* add_to_cart events in the 7-day window, hence <= freq_7d;
\* category_diversity_14d <= freq_14d; reform_bundle_14d is 0 or 1, and 1
\* only with category_diversity_14d >= 2 under the default bundles.
C29_CountsConsistent ==
  HasFeatures =>
    \A k \in Users :
      /\ features[k].high_intent_7d <= features[k].freq_7d
      /\ features[k].cart_abandon_7d
           <= Cardinality({i \in InWindow7(k) :
                             events.rows[i].event_name = "add_to_cart"})
      /\ features[k].cart_abandon_7d <= features[k].freq_7d
      /\ features[k].category_diversity_14d <= features[k].freq_14d
      /\ features[k].reform_bundle_14d \in {0, 1}
      /\ features[k].reform_bundle_14d = 1
           => features[k].category_diversity_14d >= 2

\* two uncovered cart-adds, of piso and of rodape, and one checkout
C29_Witness ==
  /\ HasFeatures
  /\ \E k \in Users :
       /\ features[k].cart_abandon_7d = 2
       /\ features[k].high_intent_7d = 1
       /\ features[k].freq_7d = 3
       /\ features[k].reform_bundle_14d = 1
       /\ features[k].category_diversity_14d = 2

\* the add_to_cart rows of the user of feature row k, at or after
\* reference - 7 days, that no begin_checkout of that user covers
Uncovered(k) ==
  {i \in RowsOf(k) :
     /\ events.rows[i].event_name = "add_to_cart"
     /\ events.rows[i].event_time >= reference[1] - 7 * HoursPerDay
     /\ ~ \E j \in RowsOf(k) :
            /\ events.rows[j].event_name = "begin_checkout"
            /\ events.rows[i].event_time <= events.rows[j].event_time
            /\ events.rows[j].event_time
                 <= events.rows[i].event_time + FEATURE_CONFIG.cart_abandon_hours}

\* C30: the abandonment check does not wait for the pairing window to
\* elapse and has no upper bound at the reference: an add_to_cart less than
\* cart_abandon_hours before the reference with no begin_checkout at or
\* after it is counted, and an add_to_cart or a begin_checkout later than
\* the reference is treated as inside the 7-day window (the cart-add is
\* counted when uncovered, the checkout covers).
C30_AbandonNoUpperBound ==
  HasFeatures =>
    \A k \in Users :
      /\ features[k].cart_abandon_7d = Cardinality(Uncovered(k))
      /\ \A i \in RowsOf(k) :
           (/\ events.rows[i].event_name = "add_to_cart"
            /\ events.rows[i].event_time
                 > reference[1] - FEATURE_CONFIG.cart_abandon_hours
            /\ ~ \E j \in RowsOf(k) :
                   /\ events.rows[j].event_name = "begin_checkout"
                   /\ events.rows[j].event_time >= events.rows[i].event_time)
             => /\ i \in Uncovered(k)
                /\ features[k].cart_abandon_7d >= 1
      /\ \A i, j \in RowsOf(k) :
           (/\ events.rows[i].event_name = "add_to_cart"
            /\ events.rows[j].event_name = "begin_checkout"
            /\ events.rows[j].event_time > reference[1]
            /\ events.rows[i].event_time <= events.rows[j].event_time
            /\ events.rows[j].event_time
                 <= events.rows[i].event_time
                      + FEATURE_CONFIG.cart_abandon_hours)
             => i \notin Uncovered(k)

\* a cart-add five hours before the reference counted for one user; for
\* another, the cart-add covered by a checkout later than the reference
C30_Witness ==
  /\ HasFeatures
  /\ reference = <<RefGiven>>
  /\ \E k, m \in Users :
       /\ Cardinality(RowsOf(k)) = 1
       /\ features[k].cart_abandon_7d = 1
       /\ \A i \in RowsOf(k) : events.rows[i].event_time = RefGiven - 5
       /\ Cardinality(RowsOf(m)) = 2
       /\ features[m].cart_abandon_7d = 0
       /\ \E i \in RowsOf(m) :
            /\ events.rows[i].event_name = "begin_checkout"
            /\ events.rows[i].event_time > RefGiven
====
